---- MODULE Spec2Model ----
(***************************************************************************)
(* Model of the lexical scanner of parser/lexer.go.                        *)
(*                                                                         *)
(* The input is a sequence of bytes (integers 0..255).  The Scanner struct *)
(* is the record s; the values returned by its methods are recorded in     *)
(* observation variables (tok, lit, tlRet, posRet, out, ...).              *)
(***************************************************************************)
EXTENDS Integers, Sequences, FiniteSets, TLC

VARIABLES
    s,          \* the Scanner struct
    nScan,      \* number of Scan calls made so far
    tok,        \* token returned by the last Scan call
    lit,        \* literal returned by the last Scan call
    out,        \* one record per Scan call made: what it returned and recorded
    lastOp,     \* the method called last
    litCalls,   \* TokenLiteral calls since the last Scan call
    tlRet,      \* string returned by the last TokenLiteral call
    posRet,     \* Position returned by the last Pos call
    panicked,   \* a slice expression was out of range
    reader,     \* the io.Reader given to NewLexer
    err,        \* whether NewLexer returned an error
    callers,    \* step by step: each caller's place in Scan and its locals
    calls,      \* step by step: the Scan calls begun, in order, and results
    interleaved \* step by step: a caller has acted while another was in Scan

vars == <<s, nScan, tok, lit, out, lastOp, litCalls, tlRet, posRet, panicked,
          reader, err, callers, calls, interleaved>>

\* the variables of the step-by-step specifications
stepVars == <<callers, calls, interleaved>>

\* the variables the step-by-step specifications leave alone
callVars == <<tok, lit, out, lastOp, tlRet, posRet, reader, err>>

----------------------------------------------------------------------------
(* Bounds *)

\* longest input, in bytes
MaxLen == 4

\* longest input of the whitespace-only specification, in bytes
MaxWsLen == 4

\* longest input of the identifier-run specification, in bytes
MaxMunchLen == 4

\* longest source of the construction specification, in bytes
MaxSrcLen == 3

\* longest input of the step-by-step specifications, in bytes
MaxStepLen == 3

\* Scan calls begun in the step-by-step specifications
MaxStepScans == 2

\* TokenLiteral calls made by the callers in the step-by-step specifications
MaxStepLitCalls == 1

\* TokenLiteral calls modelled after one Scan call
MaxLitCalls == 2

\* Scan calls modelled on one input: enough to pass the end of every input
MaxScans == MaxLen + 2

\* The bytes inputs are built from: NUL, LF, space, '+', '1', 'a', and the
\* two bytes 0xC3 0xA9 that encode U+00E9 (e with acute), which apart or in
\* the wrong order are malformed UTF-8.
Alphabet == {0, 10, 32, 43, 49, 97, 195, 169}

\* The bytes of the whitespace-only inputs: tab, LF, CR, space.
WsAlphabet == {9, 10, 13, 32}

\* The bytes of the identifier-run inputs: NUL, space, '1', 'a', and 0xC3
\* with the continuation bytes 0xA9 (U+00E9, a letter) and 0x97 (U+00D7,
\* the multiplication sign, a two-byte character that is no letter).
MunchAlphabet == {0, 32, 49, 97, 195, 169, 151}

\* The bytes of the step-by-step inputs: space, '+', 'a', and the two bytes
\* of U+00E9.
StepAlphabet == {32, 43, 97, 195, 169}

SeqsUpTo(S, n) == UNION {[1..k -> S] : k \in 0..n}

----------------------------------------------------------------------------
(* Tokens and positions *)

\* Token values.  ZeroToken is the zero value of type Token, which the named
\* result tok of Scan holds when no branch assigns it.  Type Token is
\* declared outside lexer.go; its zero value is taken to be a third tag,
\* neither EOF nor IDENT.
ZeroToken == "ILLEGAL"
EOF == "EOF"
IDENT == "IDENT"

\* The zero value of type Position.
ZeroPosition == [Offset |-> 0, Line |-> 0, Column |-> 0]

\* const eof = rune(0)
eof == 0

----------------------------------------------------------------------------
(* Character decoding: bytes.Buffer.ReadRune as next calls it *)

\* utf8.RuneSelf: bytes below it are single-byte characters
RuneSelf == 128

\* utf8.RuneError, U+FFFD, decoded with width 1 from a malformed encoding
RuneError == 65533

\* utf8.DecodeRune at byte offset off (0-based) of buf, for a first byte
\* >= RuneSelf.  Two-byte forms (first byte 0xC2..0xDF, then a continuation
\* byte 0x80..0xBF) are decoded; every other first byte the alphabets hold
\* (a continuation byte, or a lead byte without its continuation) is
\* malformed and decodes to RuneError with width 1.
DecodeRune(buf, off) ==
    IF /\ buf[off + 1] \in 194..223
       /\ off + 2 <= Len(buf)
       /\ buf[off + 2] \in 128..191
    THEN [r    |-> (buf[off + 1] - 192) * 64 + (buf[off + 2] - 128),
          size |-> 2, err |-> FALSE]
    ELSE [r |-> RuneError, size |-> 1, err |-> FALSE]

\* (b *Buffer) ReadRune() on the buffer buf read up to offset off
ReadRune(buf, off) ==
    IF off >= Len(buf)
    THEN [r |-> 0, size |-> 0, err |-> TRUE]
    ELSE IF buf[off + 1] < RuneSelf
         THEN [r |-> buf[off + 1], size |-> 1, err |-> FALSE]
         ELSE DecodeRune(buf, off)

----------------------------------------------------------------------------
(* Character classes *)

\* unicode.IsLetter on the runes >= 0x80 the alphabets can encode:
\* U+00E9 is a letter (Ll), U+00D7 (Sm) and U+FFFD (So) are not.
UnicodeIsLetter(ch) == ch \in {233}

\* unicode.IsDigit on the same runes: none is a digit.
UnicodeIsDigit(ch) == ch \in {}

isLetter(ch) ==
    \/ (97 <= ch /\ ch <= 122)
    \/ (65 <= ch /\ ch <= 90)
    \/ ch = 95
    \/ (ch >= 128 /\ UnicodeIsLetter(ch))

isDigit(ch) ==
    \/ (48 <= ch /\ ch <= 57)
    \/ (ch >= 128 /\ UnicodeIsDigit(ch))

\* isWhitespace with the carriage return forgotten
isWhitespaceNoCR(ch) == ch = 32 \/ ch = 9 \/ ch = 10

isWhitespace(ch) == ch = 32 \/ ch = 9 \/ ch = 10 \/ ch = 13

----------------------------------------------------------------------------
(* The Scanner *)

\* NewLexer with tokEnd, not tokPos, given the "no token text" value -1
NewLexerTokEndInvalid(buf) ==
    [ src         |-> [buf |-> buf, off |-> 0],
      srcBytes    |-> buf,
      ch          |-> 0,
      lastCharLen |-> 0,
      pos         |-> ZeroPosition,
      tokBuf      |-> <<>>,
      tokPos      |-> 0,
      tokEnd      |-> -1 ]

\* NewLexer(src) when reading src succeeds with content buf
NewLexer(buf) ==
    [ src         |-> [buf |-> buf, off |-> 0],
      srcBytes    |-> buf,
      ch          |-> 0,
      lastCharLen |-> 0,
      pos         |-> ZeroPosition,
      tokBuf      |-> <<>>,
      tokPos      |-> 0,
      tokEnd      |-> 0 ]

\* the position update of next with the reset of Column at a newline
\* forgotten
advanceNoColumnReset(pos, ch, size) ==
    IF ch = 10
    THEN [Offset |-> pos.Offset + size, Line |-> pos.Line + 1,
          Column |-> pos.Column + size]
    ELSE [Offset |-> pos.Offset + size, Line |-> pos.Line,
          Column |-> pos.Column + size]

\* The io.Reader src: data is all it holds, failAt the number of bytes it
\* delivers before a read fails (-1: it delivers all and then reports
\* io.EOF), read the number of bytes read from it so far.
\* ioutil.ReadAll(src): the bytes read (buf), whether an error is returned
\* (err), and the number of bytes read from src (read)
ReadAll(rd) ==
    IF rd.failAt >= 0
    THEN [buf |-> SubSeq(rd.data, 1, rd.failAt), err |-> TRUE, read |-> rd.failAt]
    ELSE [buf |-> rd.data, err |-> FALSE, read |-> Len(rd.data)]

\* the nil *Scanner
NilScanner == [nil |-> TRUE]

\* NewLexer that does not check the error of ReadAll and builds a Scanner
\* on the bytes read before the failure
NewLexerIgnoreErr(ra) == [s |-> NewLexer(ra.buf), err |-> ra.err]

\* NewLexer(src) once ioutil.ReadAll(src) has returned ra: the *Scanner
\* and the error returned
NewLexerOn(ra) ==
    IF ra.err
    THEN [s |-> NilScanner, err |-> TRUE]
    ELSE [s |-> NewLexer(ra.buf), err |-> FALSE]

\* s.pos after the statements "s.pos.Offset += size; s.pos.Column += size;
\* if s.ch == '\n' { s.pos.Line++; s.pos.Column = 0 }" of next
advance(pos, ch, size) ==
    IF ch = 10
    THEN [Offset |-> pos.Offset + size, Line |-> pos.Line + 1, Column |-> 0]
    ELSE [Offset |-> pos.Offset + size, Line |-> pos.Line,
          Column |-> pos.Column + size]

\* the body of next once s.src.ReadRune() has returned rr: the scanner
\* after the call (s) and the rune returned (ret)
nextOn(sc, rr) ==
    IF rr.err
    THEN [s |-> [sc EXCEPT !.ch = rr.r], ret |-> eof]
    ELSE [s   |-> [sc EXCEPT !.ch = rr.r,
                             !.src.off = @ + rr.size,
                             !.lastCharLen = rr.size,
                             !.pos = advance(@, rr.r, rr.size)],
          ret |-> rr.r]

\* (s *Scanner) next()
next(sc) == nextOn(sc, ReadRune(sc.src.buf, sc.src.off))

\* the loop "for isWhitespace(ch) { ch = s.next() }" of Scan, entered with
\* r = the result of the next call before it
RECURSIVE skipWhitespace(_)
skipWhitespace(r) ==
    IF isWhitespace(r.ret) THEN skipWhitespace(next(r.s)) ELSE r

\* scanIdentifier with the digits forgotten in the loop condition
RECURSIVE scanIdentifierLettersOnly(_)
scanIdentifierLettersOnly(sc) ==
    IF isLetter(sc.ch)
    THEN scanIdentifierLettersOnly(next(sc).s)
    ELSE sc

\* (s *Scanner) scanIdentifier()
RECURSIVE scanIdentifier(_)
scanIdentifier(sc) ==
    IF isLetter(sc.ch) \/ isDigit(sc.ch)
    THEN scanIdentifier(next(sc).s)
    ELSE sc

\* whether the slice expression srcBytes[tokPos:tokEnd] is in range
SliceInRange(sc) ==
    /\ 0 <= sc.tokPos
    /\ sc.tokPos <= sc.tokEnd
    /\ sc.tokEnd <= Len(sc.srcBytes)

\* s.tokBuf after s.tokBuf.Write(s.srcBytes[s.tokPos:s.tokEnd])
TokBufWrite(sc) == sc.tokBuf \o SubSeq(sc.srcBytes, sc.tokPos + 1, sc.tokEnd)

\* "return s.tokBuf.String()" of TokenLiteral
TokenLiteralReturn(sc) == [s |-> sc, ret |-> sc.tokBuf, panic |-> FALSE]

\* TokenLiteral without the assignment s.tokPos = s.tokEnd
TokenLiteralNoAdvance(sc) ==
    IF sc.tokPos < 0
    THEN [s |-> sc, ret |-> <<>>, panic |-> FALSE]
    ELSE IF ~SliceInRange(sc)
         THEN [s |-> sc, ret |-> <<>>, panic |-> TRUE]
         ELSE TokenLiteralReturn([sc EXCEPT !.tokBuf = TokBufWrite(sc)])

\* TokenLiteral with the assignment turned round: s.tokEnd = s.tokPos
TokenLiteralSwapped(sc) ==
    IF sc.tokPos < 0
    THEN [s |-> sc, ret |-> <<>>, panic |-> FALSE]
    ELSE IF ~SliceInRange(sc)
         THEN [s |-> sc, ret |-> <<>>, panic |-> TRUE]
         ELSE TokenLiteralReturn([sc EXCEPT !.tokBuf = TokBufWrite(sc),
                                            !.tokEnd = sc.tokPos])

\* (s *Scanner) TokenLiteral(): the scanner after the call (s), the string
\* returned (ret), and whether the slice expression panicked
TokenLiteral(sc) ==
    IF sc.tokPos < 0
    THEN [s |-> sc, ret |-> <<>>, panic |-> FALSE]
    ELSE IF ~SliceInRange(sc)
         THEN [s |-> sc, ret |-> <<>>, panic |-> TRUE]
         ELSE TokenLiteralReturn([sc EXCEPT !.tokBuf = TokBufWrite(sc),
                                            !.tokPos = sc.tokEnd])

\* the token start taken as s.pos.Offset, the width of the last character
\* not subtracted
tokenStartAtOffset(sc) == [sc EXCEPT !.tokBuf = <<>>, !.tokPos = sc.pos.Offset]

\* "s.tokBuf.Reset(); s.tokPos = s.pos.Offset - s.lastCharLen" of Scan
tokenStart(sc) ==
    [sc EXCEPT !.tokBuf = <<>>, !.tokPos = sc.pos.Offset - sc.lastCharLen]

\* "s.tokEnd = s.pos.Offset - s.lastCharLen" of Scan
tokenEnd(sc) == [sc EXCEPT !.tokEnd = sc.pos.Offset - sc.lastCharLen]

\* what Scan returns: the scanner after the call (s), the token and the
\* literal returned (tok, lit), the value assigned to tokPos at the start
\* of the token (start), and whether the call panicked
ScanReturn(tk, start, tl) ==
    [s |-> tl.s, tok |-> tk, lit |-> tl.ret, start |-> start, panic |-> tl.panic]

\* the end of Scan with the lexeme end taken as s.pos.Offset, the width of
\* the last character not subtracted
ScanEndAtOffset(tk, start, sc) ==
    ScanReturn(tk, start, TokenLiteral([sc EXCEPT !.tokEnd = sc.pos.Offset]))

\* the end of Scan: "s.tokEnd = s.pos.Offset - s.lastCharLen; return tok,
\* s.TokenLiteral()"
ScanEnd(tk, start, sc) ==
    ScanReturn(tk, start, TokenLiteral(tokenEnd(sc)))

\* ScanToken with the "case eof" of the switch forgotten
ScanTokenNoEof(ch) ==
    IF isLetter(ch) THEN IDENT ELSE ZeroToken

\* the token Scan returns when the first character after the whitespace
\* is ch: IDENT for a letter, overridden by EOF in the switch, else the
\* zero value
ScanToken(ch) ==
    IF ch = eof THEN EOF
    ELSE IF isLetter(ch) THEN IDENT
    ELSE ZeroToken

\* the classification of Scan, from the scanner sc with the token start
\* set and the first character ch of the token
ScanClassify(ch, sc) ==
    ScanEnd(ScanToken(ch), sc.tokPos,
            IF isLetter(ch) THEN scanIdentifier(sc) ELSE sc)

\* the start of the token with the lexeme start taken as s.pos.Offset, the
\* width of the first character not subtracted
ScanStartAtOffset(w) ==
    ScanClassify(w.ret, [w.s EXCEPT !.tokBuf = <<>>, !.tokPos = w.s.pos.Offset])

\* the start of the token: "s.tokBuf.Reset(); s.tokPos = s.pos.Offset -
\* s.lastCharLen", with w the result of the last next call
ScanStart(w) == ScanClassify(w.ret, tokenStart(w.s))

\* (s *Scanner) Scan()
Scan(sc) == ScanStart(skipWhitespace(next(sc)))

\* (s *Scanner) Pos()
Pos(sc) == ZeroPosition

----------------------------------------------------------------------------
(* The state machine: a single caller calling Scan, TokenLiteral and Pos *)

\* a caller outside Scan
IdleCaller == [pc |-> "idle", ch |-> 0, tok |-> ZeroToken, k |-> 0]

\* a scanner constructed on one of the inputs, shared by n step-by-step callers
InitWith(inputs, n) ==
    /\ s \in {NewLexer(buf) : buf \in inputs}
    /\ nScan = 0
    /\ tok = ZeroToken
    /\ lit = <<>>
    /\ out = <<>>
    /\ lastOp = "NewLexer"
    /\ litCalls = 0
    /\ tlRet = <<>>
    /\ posRet = ZeroPosition
    /\ panicked = FALSE
    /\ reader = [data |-> s.srcBytes, failAt |-> -1, read |-> Len(s.srcBytes)]
    /\ err = FALSE
    /\ callers = [t \in 1..n |-> IdleCaller]
    /\ calls = <<>>
    /\ interleaved = FALSE

InitOn(inputs) == InitWith(inputs, 0)

Init == InitOn(SeqsUpTo(Alphabet, MaxLen))

InitWs == InitOn(SeqsUpTo(WsAlphabet, MaxWsLen))

\* the caller's step for a Scan call that returned r
ScanStep(r) ==
    /\ s' = r.s
    /\ tok' = r.tok
    /\ lit' = r.lit
    \* tok, lit: the values returned; start, end: the lexeme start and end
    \* the call recorded; from, to: the cursor offset before and after
    /\ out' = Append(out, [tok |-> r.tok, lit |-> r.lit,
                           start |-> r.start, end |-> r.s.tokEnd,
                           from |-> s.pos.Offset, to |-> r.s.pos.Offset])
    /\ panicked' = r.panic
    /\ nScan' = nScan + 1
    /\ lastOp' = "Scan"
    /\ litCalls' = 0
    /\ tlRet' = <<>>
    /\ UNCHANGED <<posRet, reader, err>>
    /\ UNCHANGED stepVars

DoScan ==
    /\ s # NilScanner
    /\ ~panicked
    /\ nScan < MaxScans
    /\ ScanStep(Scan(s))

\* the caller's step for a TokenLiteral call that returned r
TokenLiteralStep(r) ==
    /\ s' = r.s
    /\ tlRet' = r.ret
    /\ panicked' = r.panic
    /\ litCalls' = litCalls + 1
    /\ lastOp' = "TokenLiteral"
    /\ UNCHANGED <<nScan, tok, lit, out, posRet, reader, err>>
    /\ UNCHANGED stepVars

DoTokenLiteral ==
    /\ s # NilScanner
    /\ ~panicked
    /\ litCalls < MaxLitCalls
    /\ TokenLiteralStep(TokenLiteral(s))

DoPos ==
    /\ s # NilScanner
    /\ ~panicked
    /\ lastOp # "Pos"
    /\ posRet' = Pos(s)
    /\ lastOp' = "Pos"
    /\ UNCHANGED <<s, nScan, tok, lit, out, litCalls, tlRet, panicked,
                   reader, err>>
    /\ UNCHANGED stepVars

Next == DoScan \/ DoTokenLiteral \/ DoPos

Spec == Init /\ [][Next]_vars

SpecWs == InitWs /\ [][Next]_vars

----------------------------------------------------------------------------
(* Construction: NewLexer on a reader that may fail, then the calls above *)

\* the readers: every content, failing after any number of its bytes or not
\* at all, nothing read yet
Readers ==
    UNION {{[data |-> d, failAt |-> f, read |-> 0] : f \in -1..Len(d)} :
              d \in SeqsUpTo(Alphabet, MaxSrcLen)}

InitNew ==
    /\ reader \in Readers
    /\ s = NilScanner
    /\ nScan = 0
    /\ tok = ZeroToken
    /\ lit = <<>>
    /\ out = <<>>
    /\ lastOp = "none"
    /\ litCalls = 0
    /\ tlRet = <<>>
    /\ posRet = ZeroPosition
    /\ panicked = FALSE
    /\ err = FALSE
    /\ callers = <<>>
    /\ calls = <<>>
    /\ interleaved = FALSE

\* the caller's step for a NewLexer call that read ra from the reader and
\* returned r
NewLexerStep(ra, r) ==
    /\ reader' = [reader EXCEPT !.read = ra.read]
    /\ s' = r.s
    /\ err' = r.err
    /\ lastOp' = "NewLexer"
    /\ UNCHANGED <<nScan, tok, lit, out, litCalls, tlRet, posRet, panicked>>
    /\ UNCHANGED stepVars

DoNewLexer ==
    /\ lastOp = "none"
    /\ NewLexerStep(ReadAll(reader), NewLexerOn(ReadAll(reader)))

NextNew == DoNewLexer \/ DoScan \/ DoTokenLiteral \/ DoPos

SpecNew == InitNew /\ [][NextNew]_vars

----------------------------------------------------------------------------
(* Scan step by step: callers sharing one Scanner, each step one cursor    *)
(* advance (a next call), one write of the token span, or one             *)
(* TokenLiteral call                                                       *)

\* the callers there can be: one, or two sharing the Scanner
CallerIds == {1, 2}

\* caller t is inside a Scan call
InScan(t) == callers[t].pc \notin {"idle", "done"}

\* a step of caller t is taken while another caller is inside Scan
Overlaps(t) == \E u \in DOMAIN callers : u # t /\ InScan(u)

\* what every step of caller t does besides its own work: no step is taken
\* after a panic, and a step taken while another caller is inside Scan is noted
CallerStep(t) ==
    /\ t \in DOMAIN callers
    /\ ~panicked
    /\ interleaved' = (interleaved \/ Overlaps(t))
    /\ UNCHANGED callVars

InitSteps(n) == InitWith(SeqsUpTo(StepAlphabet, MaxStepLen), n)

\* one caller
InitSeq == InitSteps(1)

\* two callers
InitConc == InitSteps(2)

\* "ch := s.next()" at the start of Scan, next having returned r
BeginWith(t, r) ==
    /\ s' = r.s
    /\ callers' = [callers EXCEPT ![t] = [pc |-> "skip", ch |-> r.ret,
                                          tok |-> ZeroToken, k |-> nScan + 1]]
    /\ calls' = Append(calls, [by |-> t, done |-> FALSE,
                               tok |-> ZeroToken, lit |-> <<>>])
    /\ nScan' = nScan + 1
    /\ UNCHANGED <<litCalls, panicked>>

BeginScan(t) ==
    /\ CallerStep(t)
    /\ ~InScan(t)
    /\ nScan < MaxStepScans
    /\ BeginWith(t, next(s))

\* "ch = s.next()" in the whitespace loop, next having returned r
SkipWith(t, r) ==
    /\ s' = r.s
    /\ callers' = [callers EXCEPT ![t].ch = r.ret]
    /\ UNCHANGED <<calls, nScan, litCalls, panicked>>

SkipStep(t) ==
    /\ CallerStep(t)
    /\ callers[t].pc = "skip"
    /\ isWhitespace(callers[t].ch)
    /\ SkipWith(t, next(s))

\* leaving the whitespace loop: the token start is written and the token
\* classified from the local ch
StartStep(t) ==
    /\ CallerStep(t)
    /\ callers[t].pc = "skip"
    /\ ~isWhitespace(callers[t].ch)
    /\ s' = tokenStart(s)
    /\ callers' = [callers EXCEPT
                     ![t].pc = IF isLetter(callers[t].ch) THEN "ident" ELSE "end",
                     ![t].tok = ScanToken(callers[t].ch)]
    /\ UNCHANGED <<calls, nScan, litCalls, panicked>>

\* "s.next()" in the loop of scanIdentifier
IdentStep(t) ==
    /\ CallerStep(t)
    /\ callers[t].pc = "ident"
    /\ (isLetter(s.ch) \/ isDigit(s.ch))
    /\ s' = next(s).s
    /\ UNCHANGED <<callers, calls, nScan, litCalls, panicked>>

\* leaving the loop of scanIdentifier
IdentExit(t) ==
    /\ CallerStep(t)
    /\ callers[t].pc = "ident"
    /\ ~(isLetter(s.ch) \/ isDigit(s.ch))
    /\ callers' = [callers EXCEPT ![t].pc = "end"]
    /\ UNCHANGED <<s, calls, nScan, litCalls, panicked>>

\* the token end is written
EndStep(t) ==
    /\ CallerStep(t)
    /\ callers[t].pc = "end"
    /\ s' = tokenEnd(s)
    /\ callers' = [callers EXCEPT ![t].pc = "lit"]
    /\ UNCHANGED <<calls, nScan, litCalls, panicked>>

\* "return tok, s.TokenLiteral()", TokenLiteral having returned r
LitWith(t, r) ==
    /\ s' = r.s
    /\ panicked' = r.panic
    /\ callers' = [callers EXCEPT ![t].pc = "done"]
    /\ calls' = [calls EXCEPT ![callers[t].k] =
                    [by |-> t, done |-> TRUE, tok |-> callers[t].tok, lit |-> r.ret]]
    /\ UNCHANGED <<nScan, litCalls>>

LitStep(t) ==
    /\ CallerStep(t)
    /\ callers[t].pc = "lit"
    /\ LitWith(t, TokenLiteral(s))

\* a TokenLiteral call by a caller outside Scan, having returned r
CallLiteralWith(r) ==
    /\ s' = r.s
    /\ panicked' = r.panic
    /\ litCalls' = litCalls + 1
    /\ UNCHANGED <<callers, calls, nScan>>

CallTokenLiteral(t) ==
    /\ CallerStep(t)
    /\ ~InScan(t)
    /\ litCalls < MaxStepLitCalls
    /\ CallLiteralWith(TokenLiteral(s))

NextSteps ==
    \E t \in CallerIds :
        \/ BeginScan(t)
        \/ SkipStep(t)
        \/ StartStep(t)
        \/ IdentStep(t)
        \/ IdentExit(t)
        \/ EndStep(t)
        \/ LitStep(t)
        \/ CallTokenLiteral(t)

\* a single caller
SpecSeq == InitSeq /\ [][NextSteps]_vars

\* two callers without serialization
SpecConc == InitConc /\ [][NextSteps]_vars

InitMunch == InitOn(SeqsUpTo(MunchAlphabet, MaxMunchLen))

SpecMunch == InitMunch /\ [][Next]_vars

----------------------------------------------------------------------------
(* What the properties speak about, defined on the input bytes alone *)

\* the input the scanner was built on
Input == s.srcBytes

\* the whitespace bytes: tab, LF, CR, space
WsBytes == {9, 10, 13, 32}

\* seq is a run of letters and digits: 'a', '1' and the encoding of U+00E9
RECURSIVE IsLetterDigitRun(_)
IsLetterDigitRun(seq) ==
    \/ seq = <<>>
    \/ /\ seq[1] \in {97, 49}
       /\ IsLetterDigitRun(Tail(seq))
    \/ /\ Len(seq) >= 2
       /\ seq[1] = 195
       /\ seq[2] = 169
       /\ IsLetterDigitRun(SubSeq(seq, 3, Len(seq)))

\* seq is one identifier: a letter, then letters and digits
IsIdentifier(seq) ==
    /\ seq # <<>>
    /\ \/ seq[1] = 97
       \/ (Len(seq) >= 2 /\ seq[1] = 195 /\ seq[2] = 169)
    /\ IsLetterDigitRun(seq)

\* length of the longest prefix of seq free of whitespace
WordLen(seq) ==
    IF \E i \in 1..Len(seq) : seq[i] \in WsBytes
    THEN (CHOOSE i \in 1..Len(seq) :
            /\ seq[i] \in WsBytes
            /\ \A j \in 1..(i - 1) : seq[j] \notin WsBytes) - 1
    ELSE Len(seq)

\* the maximal whitespace-free pieces of seq, in order
RECURSIVE Words(_)
Words(seq) ==
    IF seq = <<>> THEN <<>>
    ELSE IF seq[1] \in WsBytes THEN Words(Tail(seq))
    ELSE <<SubSeq(seq, 1, WordLen(seq))>>
            \o Words(SubSeq(seq, WordLen(seq) + 1, Len(seq)))

\* number of LF bytes among the first n bytes of seq
Newlines(seq, n) == Cardinality({i \in 1..n : seq[i] = 10})

----------------------------------------------------------------------------
(* Properties *)

\* C1: on an input that is exactly one identifier, the first Scan call
\* returns IDENT with the whole input as literal and the second returns EOF.
C1_SingleIdentifier ==
    IsIdentifier(Input) =>
        /\ Len(out) >= 1 => (out[1].tok = IDENT /\ out[1].lit = Input)
        /\ Len(out) >= 2 => out[2].tok = EOF

\* C2: on an input of two or more identifiers separated (and optionally
\* preceded or followed) by whitespace, the Scan calls return IDENT with the
\* text of each identifier in input order, and the call after the last
\* identifier returns EOF.
C2_IdentifierSequence ==
    LET w == Words(Input) IN
    (Len(w) >= 2 /\ \A k \in 1..Len(w) : IsIdentifier(w[k])) =>
        \A i \in 1..Len(out) :
            /\ i <= Len(w) => (out[i].tok = IDENT /\ out[i].lit = w[i])
            /\ i = Len(w) + 1 => out[i].tok = EOF

\* C3: on an input of whitespace only (the empty input included), the first
\* Scan call returns EOF with an empty literal and no Scan call returns IDENT.
C3_WhitespaceOnly ==
    (\A k \in 1..Len(Input) : Input[k] \in WsBytes) =>
        \A i \in 1..Len(out) :
            /\ out[i].tok # IDENT
            /\ i = 1 => (out[i].tok = EOF /\ out[i].lit = <<>>)

\* C3 witness: Scan was called twice on an input holding a tab and a CR.
C3_Witness ==
    /\ \E k \in 1..Len(Input) : Input[k] = 9
    /\ \E k \in 1..Len(Input) : Input[k] = 13
    /\ Len(out) = 2
    /\ tok = EOF

\* C4: once a Scan call has returned EOF, every later Scan call returns EOF
\* with an empty literal and leaves the cursor position unchanged.
C4_EofAbsorbing ==
    [][(nScan > 0 /\ tok = EOF /\ nScan' = nScan + 1) =>
            (tok' = EOF /\ lit' = <<>> /\ s'.pos = s.pos)]_vars

\* C5: after Scan calls that consumed input, Pos returns the live cursor
\* position: the byte offset, the 1-based line and the column of the
\* character following the last token returned.
C5_PosIsLive ==
    (lastOp = "Pos" /\ nScan > 0 /\ s.pos.Offset > 0) =>
        posRet = [Offset |-> s.pos.Offset,
                  Line   |-> 1 + Newlines(Input, s.pos.Offset),
                  Column |-> s.pos.Column]

\* C6: when the first word of the input is an identifier with a multi-byte
\* letter, wherever the word ends, the first Scan call returns IDENT with
\* exactly the bytes of the word, and the cursor offset has passed every
\* byte of the word.
C6_MultiByteIdentifier ==
    LET w == Words(Input) IN
    (/\ Len(out) >= 1
     /\ Len(w) >= 1
     /\ IsIdentifier(w[1])
     /\ \E k \in 1..Len(w[1]) : w[1][k] >= 128) =>
        /\ out[1].tok = IDENT
        /\ out[1].lit = w[1]
        /\ out[1].to - out[1].start >= Len(w[1])

\* C7: the lexeme start each Scan call records is at or after the lexeme
\* end the previous Scan call recorded, so lexeme starts never decrease.
C7_NeverRewinds ==
    \A i \in 2..Len(out) :
        /\ out[i].start >= out[i - 1].end
        /\ out[i].start >= out[i - 1].start

\* C7 witness: a second token starts strictly after the end of the first.
C7_Witness ==
    /\ Len(out) >= 2
    /\ out[2].tok = IDENT
    /\ out[2].start > out[1].end

\* C8: every TokenLiteral call made after a Scan call returns the literal
\* that Scan call returned.
C8_TokenLiteralIdempotent ==
    (nScan > 0 /\ litCalls > 0) => tlRet = lit

\* C8 witness: TokenLiteral was called twice after a Scan call that returned
\* a non-empty literal.
C8_Witness ==
    /\ nScan > 0
    /\ litCalls = 2
    /\ lit # <<>>
    /\ tlRet = lit

\* C9: no slice taken by TokenLiteral is out of range: no call panics and
\* 0 <= tokPos <= tokEnd <= len(srcBytes) in every state.
C9_SliceInBounds ==
    /\ ~panicked
    /\ 0 <= s.tokPos
    /\ s.tokPos <= s.tokEnd
    /\ s.tokEnd <= Len(Input)

\* C9 witness: on an input with a byte that is not ASCII, TokenLiteral was
\* called after the second Scan call, whose lexeme ends past the first byte.
C9_Witness ==
    /\ \E k \in 1..Len(Input) : Input[k] >= 128
    /\ nScan >= 2
    /\ litCalls >= 1
    /\ s.tokEnd > 0
    /\ ~panicked

\* C10: every consumed character that starts no lexeme class (here a '+'
\* anywhere, or a '1' at the start of the input or right after whitespace
\* or a '+') is the lexeme start of a Scan call that returned neither EOF
\* nor IDENT.
C10_UnclassifiedReported ==
    \A i \in 1..Len(Input) :
        (/\ i <= s.pos.Offset
         /\ \/ Input[i] = 43
            \/ (Input[i] = 49 /\ (i = 1 \/ Input[i - 1] \in WsBytes \cup {43}))) =>
            \E j \in 1..Len(out) :
                /\ out[j].tok \notin {EOF, IDENT}
                /\ out[j].start = i - 1

\* C11: a caller that calls Scan repeatedly has received EOF after at most
\* len(srcBytes) + 1 calls, and every Scan call that does not return EOF
\* consumes at least one character.
C11_EofWithinLenPlusOne ==
    /\ nScan >= Len(Input) + 1 => \E i \in 1..Len(out) : out[i].tok = EOF
    /\ \A i \in 1..Len(out) : out[i].tok # EOF => out[i].to > out[i].from

\* C11 witness: on an input of two bytes or more, EOF came exactly with call
\* number len(srcBytes) + 1.
C11_Witness ==
    /\ Len(Input) >= 2
    /\ nScan = Len(Input) + 1
    /\ out[nScan].tok = EOF
    /\ \A i \in 1..(nScan - 1) : out[i].tok # EOF

\* C12: TokenLiteral called before any Scan call returns the empty string
\* and does not panic.
C12_LiteralBeforeScan ==
    (nScan = 0 /\ litCalls > 0) => (tlRet = <<>> /\ ~panicked)

\* C12 witness: TokenLiteral was called on a fresh scanner of a non-empty
\* input.
C12_Witness ==
    /\ nScan = 0
    /\ litCalls > 0
    /\ lastOp = "TokenLiteral"
    /\ Input # <<>>

\* C14: Scan returns EOF only when no bytes of the buffer remain unread.
C14_EofOnlyAtEnd ==
    \A i \in 1..Len(out) : out[i].tok = EOF => out[i].to = Len(Input)

\* index of the last LF among the first n bytes of seq, 0 when there is none
LastNewline(seq, n) ==
    IF \E i \in 1..n : seq[i] = 10
    THEN CHOOSE i \in 1..n : seq[i] = 10 /\ \A j \in (i + 1)..n : seq[j] # 10
    ELSE 0

\* C16: the cursor offset is the number of bytes consumed (each Scan call
\* starts where the previous one stopped, never moves back and never passes
\* the end of the buffer), line counts the consumed newlines, and column is
\* the number of bytes consumed since the last consumed newline.
C16_CursorAccounting ==
    /\ s.pos.Offset = s.src.off
    /\ s.pos.Offset <= Len(Input)
    /\ s.pos.Line = Newlines(Input, s.pos.Offset)
    /\ s.pos.Column = s.pos.Offset - LastNewline(Input, s.pos.Offset)
    /\ \A i \in 1..Len(out) :
        /\ out[i].from <= out[i].to
        /\ out[i].from = (IF i = 1 THEN 0 ELSE out[i - 1].to)
    /\ Len(out) > 0 => out[Len(out)].to = s.pos.Offset

\* C16 witness: the cursor has passed a newline and, after it, a two-byte
\* character.
C16_Witness ==
    /\ s.pos.Line = 1
    /\ s.pos.Column = 2
    /\ s.pos.Offset >= 3
    /\ Input[s.pos.Offset - 1] = 195
    /\ Input[s.pos.Offset] = 169

\* number of whitespace bytes of seq from index n + 1 on, up to the first
\* byte that is not whitespace
RECURSIVE LeadingWs(_, _)
LeadingWs(seq, n) ==
    IF n < Len(seq) /\ seq[n + 1] \in WsBytes
    THEN 1 + LeadingWs(seq, n + 1)
    ELSE 0

\* offset of the first byte that is not whitespace at or after offset n
FirstNonWs(seq, n) == n + LeadingWs(seq, n)

\* the bytes of seq at offset p are no well-formed character: a
\* continuation byte 0xA9 or 0x97 where a character starts, or the lead
\* byte 0xC3 without a continuation byte after it
MalformedAt(seq, p) ==
    /\ p < Len(seq)
    /\ \/ seq[p + 1] \in {169, 151}
       \/ /\ seq[p + 1] = 195
          /\ (p + 2 > Len(seq) \/ seq[p + 2] \notin {169, 151})

\* C17: a Scan call that meets a malformed encoding as first
\* character after the whitespace returns EOF and leaves the cursor in
\* front of it.
C17_MalformedIsEof ==
    \A i \in 1..Len(out) :
        MalformedAt(Input, FirstNonWs(Input, out[i].from)) =>
            /\ out[i].tok = EOF
            /\ out[i].to = FirstNonWs(Input, out[i].from)

\* a letter starts at offset p of seq: 'a' or the two bytes of U+00E9
LetterAt(seq, p) ==
    \/ (p < Len(seq) /\ seq[p + 1] = 97)
    \/ (p + 2 <= Len(seq) /\ seq[p + 1] = 195 /\ seq[p + 2] = 169)

\* offset of the first character at or after offset q of seq that is
\* neither letter nor digit (the length of seq when there is none)
RECURSIVE RunEnd(_, _)
RunEnd(seq, q) ==
    IF q < Len(seq) /\ seq[q + 1] \in {97, 49}
    THEN RunEnd(seq, q + 1)
    ELSE IF q + 2 <= Len(seq) /\ seq[q + 1] = 195 /\ seq[q + 2] = 169
         THEN RunEnd(seq, q + 2)
         ELSE q

\* what C18 says of a Scan call whose first character after the whitespace
\* starts at offset p, for the run of letters and digits that ends at q
MunchResult(o, p, q) ==
    /\ o.tok = IDENT
    /\ o.lit = SubSeq(Input, p + 1, q)
    /\ o.start = p
    /\ o.end = q

\* C18: when the first character after the whitespace is a letter and the
\* run of letters and digits starting there is followed by at least one more
\* character, Scan returns IDENT with exactly that run as literal, from the
\* offset of its first character to the offset of the first character that
\* is neither letter nor digit.
C18_MaximalMunch ==
    \A i \in 1..Len(out) :
        (/\ LetterAt(Input, FirstNonWs(Input, out[i].from))
         /\ RunEnd(Input, FirstNonWs(Input, out[i].from)) < Len(Input)) =>
            MunchResult(out[i], FirstNonWs(Input, out[i].from),
                        RunEnd(Input, FirstNonWs(Input, out[i].from)))

\* C18 witness: the first Scan call returned a run with a digit that ends
\* at the two-byte character U+00D7.
C18_Witness ==
    /\ Len(out) >= 1
    /\ out[1].tok = IDENT
    /\ \E k \in 1..Len(out[1].lit) : out[1].lit[k] = 49
    /\ out[1].end + 2 <= Len(Input)
    /\ Input[out[1].end + 1] = 195
    /\ Input[out[1].end + 2] = 151

\* C13: NewLexer returns an error and the nil Scanner exactly when reading
\* the source fails; otherwise the Scanner's buffer holds every byte of the
\* source; and once NewLexer has returned, no call reads the source again.
C13_AllOrNothing ==
    lastOp # "none" =>
        /\ err <=> reader.failAt >= 0
        /\ err => s = NilScanner
        /\ ~err => (s # NilScanner /\ s.srcBytes = reader.data
                                   /\ s.src.buf = reader.data)
        /\ reader.read = (IF err THEN reader.failAt ELSE Len(reader.data))

\* C13 witness: the read failed after some but not all bytes of the source
\* and NewLexer has returned.
C13_Witness ==
    /\ lastOp = "NewLexer"
    /\ err
    /\ s = NilScanner
    /\ reader.read > 0
    /\ reader.read < Len(reader.data)

\* the step is a TokenLiteral call made by a caller outside Scan
IsCallerLiteral == litCalls' = litCalls + 1

\* the step is the TokenLiteral call Scan makes before it returns
IsScanLiteral ==
    \E t \in DOMAIN callers : callers[t].pc = "lit" /\ callers'[t].pc = "done"

\* C15 as stated: a TokenLiteral call changes neither tokPos nor tokEnd.
C15_SpanUnchanged ==
    [][(IsCallerLiteral \/ IsScanLiteral) =>
          (s'.tokPos = s.tokPos /\ s'.tokEnd = s.tokEnd)]_vars

\* C15, amended: a TokenLiteral call never changes tokEnd and only appends
\* to the text accumulator; it sets tokPos to tokEnd, so a call made by the
\* caller between Scan calls changes neither tokPos nor tokEnd, and only the
\* call Scan itself makes moves tokPos, from the lexeme start to its end.
C15_OnlyStartMoves ==
    [][(IsCallerLiteral \/ IsScanLiteral) =>
          /\ s'.tokEnd = s.tokEnd
          /\ s'.tokPos = s.tokEnd
          /\ IsCallerLiteral => s'.tokPos = s.tokPos
          /\ Len(s'.tokBuf) >= Len(s.tokBuf)
          /\ SubSeq(s'.tokBuf, 1, Len(s.tokBuf)) = s.tokBuf]_vars

\* C15 witness: a Scan call has returned a non-empty literal, its TokenLiteral
\* call having moved tokPos, and the caller has called TokenLiteral after it.
C15_Witness ==
    /\ litCalls >= 1
    /\ Len(calls) >= 1
    /\ calls[1].done
    /\ calls[1].lit # <<>>
    /\ s.tokBuf = calls[1].lit
    /\ s.tokPos = s.tokEnd
    /\ s.tokPos > 0

\* the k-th Scan call of a run in which the calls follow one another
RECURSIVE SerialScan(_)
SerialScan(k) ==
    IF k = 1 THEN Scan(NewLexer(Input)) ELSE Scan(SerialScan(k - 1).s)

\* C19, the serial half: as long as no caller has acted while another was
\* inside Scan, no call panics, tokPos <= tokEnd holds at every TokenLiteral
\* call, and each Scan call returns what the calls made one after another
\* return.
C19_SerialRunsAgree ==
    ~interleaved =>
        /\ ~panicked
        /\ (\A t \in DOMAIN callers :
               callers[t].pc = "lit" => s.tokPos <= s.tokEnd)
        /\ \A k \in 1..Len(calls) :
               calls[k].done => /\ calls[k].tok = SerialScan(k).tok
                                /\ calls[k].lit = SerialScan(k).lit

\* C19 witness: two callers interleaved, and a TokenLiteral call has sliced
\* the buffer with tokPos > tokEnd and panicked.
C19_Witness ==
    /\ interleaved
    /\ panicked
    /\ s.tokPos > s.tokEnd
    /\ Len(calls) = 2
    /\ calls[1].by # calls[2].by

====
